---- MODULE Spec2Model ----
(***************************************************************************)
(* The dashboard hosts list controller                                     *)
(* (awx/ui/client/src/dashboard/hosts/dashboard-hosts-list.controller.js)  *)
(* as a state machine.  One action per handler the controller registers    *)
(* (init, editHost, toggleHostEnabled and its promise continuation, the    *)
(* PostRefresh listener, the $stateChangeSuccess listener, the $destroy    *)
(* listener), each run to completion as the event loop runs it.            *)
(*                                                                         *)
(* JavaScript objects are functions from property names to values: a       *)
(* property that was never written or was deleted is not in the DOMAIN, a  *)
(* property written with undefined is in the DOMAIN with value Undefined.  *)
(* Array positions are 1-based here (JavaScript index k is position k+1,   *)
(* and the -1 of a failed _.findIndex is position 0).                      *)
(***************************************************************************)
EXTENDS Integers, Sequences, FiniteSets, Bags, TLC

\* Bounds of the model.
MaxHosts == 2       \* host identifiers are 1..MaxHosts; a page has at most MaxHosts rows
MaxPending == 2     \* setHostStatus requests in flight at the same time

HostIds == 1..MaxHosts

(***************************************************************************)
(* JavaScript values and objects                                           *)
(***************************************************************************)
Undefined == [type |-> "undefined"]
Num(n) == [type |-> "number", value |-> n]

\* obj.key (reading an absent property yields undefined)
Get(obj, key) == IF key \in DOMAIN obj THEN obj[key] ELSE Undefined
\* obj.key = val
Set(obj, key, val) == [k \in (DOMAIN obj) \cup {key} |-> IF k = key THEN val ELSE obj[k]]
\* delete obj.key
Delete(obj, key) == [k \in (DOMAIN obj) \ {key} |-> obj[k]]

(***************************************************************************)
(* Data the server sends                                                   *)
(***************************************************************************)
Inventories == << [id |-> 9, name |-> "Prod"], [id |-> 7, name |-> "Dev"] >>

\* a host belongs to one inventory for its whole life
InventoryOf(h) == Inventories[(h % Len(Inventories)) + 1]

\* a host as the hosts endpoint returns it
ApiHost(h, en) ==
    [id |-> h, enabled |-> en, summary_fields |-> [inventory |-> InventoryOf(h)]]

\* the identifiers of the rows of a page: distinct, at most MaxHosts of them,
\* in the order the server sorts them (order_by id)
IdSeqs ==
    { s \in UNION { [1..n -> HostIds] : n \in 0..MaxHosts } :
        \A j, k \in DOMAIN s : j < k => s[j] < s[k] }

\* the results array of a fetched page: identifiers unique within the page
ApiResults ==
    UNION { { [k \in DOMAIN s |-> ApiHost(s[k], e[k])] : e \in [DOMAIN s -> BOOLEAN] } :
            s \in IdSeqs }

\* the pre-fetched first page {results, count, next, previous}; the
\* collection may be larger than the page
ApiPages ==
    { [results |-> r, count |-> Len(r) + more,
       next |-> IF more > 0 THEN "page2" ELSE "null", previous |-> "null"] :
        r \in ApiResults, more \in {0, 1} }

StateNames == {"dashboardHosts.edit", "dashboardHosts", "inventoryScripts"}

\* $stateParams / toParams: with or without an id
NoParams == << >>
ParamSets == {NoParams} \cup { [id |-> Num(h)] : h \in HostIds }

\* DashboardHostsList, the list descriptor
list == [name |-> "hosts", iterator |-> "host"]
defaultUrl == "/api/v1/hosts/"

(***************************************************************************)
(* State                                                                   *)
(***************************************************************************)
VARIABLES
    phase,      \* "constructed": handlers registered, init() not yet run;
                \* "ready": init() has run; "destroyed": $destroy delivered
    scope,      \* $scope: the view state object
    listener,   \* TRUE while the $stateChangeSuccess listener is registered on $rootScope
    pending,    \* bag of setHostStatus requests whose promise is not settled
    event,      \* the event dispatched last, with its arguments
    calls,      \* the collaborator calls made by the handler of that event, in order
    thrown      \* the exception that handler threw, "none" if it returned

vars == <<phase, scope, listener, pending, event, calls, thrown>>

hosts == scope.hosts

HostIdsOf(hs) == { hs[k].id : k \in DOMAIN hs }

(***************************************************************************)
(* setJobStatus: SetStatus({scope, host}) for every host of $scope.hosts   *)
(***************************************************************************)
\* the status resolver attaches job-status display metadata to the host
SetStatus(host) == Set(host, "job_status", "resolved")

setJobStatus(hs) == [k \in DOMAIN hs |-> SetStatus(hs[k])]

\* one call per host, in order; sees: the properties the host has when the
\* resolver is handed it
setJobStatusCalls(hs) ==
    [k \in DOMAIN hs |-> [fn |-> "SetStatus", host |-> hs[k].id, sees |-> DOMAIN hs[k]]]

(***************************************************************************)
(* init()                                                                  *)
(***************************************************************************)
\* (mutant) init() without the check of $state.current
initScope_NoDeepLink(sc, page, current, params) ==
    LET s1 == Set(sc, "list", list)
        s2 == Set(s1, "host_active_search", FALSE)
        s3 == Set(s2, "host_total_rows", Len(page.results))
        s4 == Set(s3, "hosts", page.results)
        s5 == Set(s4, "hosts", setJobStatus(s4.hosts))
    IN  Set(s5, "hostLoading", FALSE)

initScope(sc, page, current, params) ==
    LET s1 == Set(sc, "list", list)
        s2 == Set(s1, "host_active_search", FALSE)
        s3 == Set(s2, "host_total_rows", Len(page.results))
        s4 == Set(s3, "hosts", page.results)
        s5 == Set(s4, "hosts", setJobStatus(s4.hosts))
        s6 == Set(s5, "hostLoading", FALSE)
    IN  IF current = "dashboardHosts.edit"
        THEN Set(Set(s6, "rowBeingEdited", Get(params, "id")), "listBeingEdited", "hosts")
        ELSE s6

\* $scope when line 59 has run
initInstalled(sc, page) ==
    Set(Set(Set(Set(sc, "list", list), "host_active_search", FALSE),
            "host_total_rows", Len(page.results)),
        "hosts", page.results)

\* (mutant) init() triggers the search before the collaborators are set up
initCalls_SearchFirst(sc, page, current, params) ==
    LET installed == DOMAIN initInstalled(sc, page)
    IN  setJobStatusCalls(page.results) \o
        << [fn |-> "search", iterator |-> list.iterator, sees |-> installed],
           [fn |-> "generator.inject", list |-> list.name, mode |-> "edit", sees |-> installed],
           [fn |-> "SearchInit", set |-> "hosts", list |-> list.name, url |-> defaultUrl,
            sees |-> installed],
           [fn |-> "PaginateInit", list |-> list.name, url |-> defaultUrl, pageSize |-> 10,
            sees |-> installed],
           [fn |-> "PageRangeSetup", count |-> page.count, next |-> page.next,
            previous |-> page.previous, iterator |-> list.iterator, sees |-> installed] >>

\* the collaborator calls of init() in the order of lines 60-86; sees: the
\* properties $scope has when the collaborator is handed it
initCalls(sc, page, current, params) ==
    LET installed == DOMAIN initInstalled(sc, page)
    IN  setJobStatusCalls(page.results) \o
        << [fn |-> "generator.inject", list |-> list.name, mode |-> "edit", sees |-> installed],
           [fn |-> "SearchInit", set |-> "hosts", list |-> list.name, url |-> defaultUrl,
            sees |-> installed],
           [fn |-> "PaginateInit", list |-> list.name, url |-> defaultUrl, pageSize |-> 10,
            sees |-> installed],
           [fn |-> "PageRangeSetup", count |-> page.count, next |-> page.next,
            previous |-> page.previous, iterator |-> list.iterator, sees |-> installed],
           [fn |-> "search", iterator |-> list.iterator,
            sees |-> DOMAIN initScope(sc, page, current, params)] >>

init(page, current, params) ==
    /\ phase = "constructed"
    /\ phase' = "ready"
    /\ scope' = initScope(scope, page, current, params)
    /\ calls' = initCalls(scope, page, current, params)
    /\ event' = [name |-> "init", page |-> page, current |-> current, params |-> params]
    /\ thrown' = "none"
    /\ UNCHANGED <<listener, pending>>

(***************************************************************************)
(* $scope.editHost                                                         *)
(***************************************************************************)
\* (mutant) editHost marks the row itself instead of waiting for the router
editHost_SetsMarker(id) ==
    /\ phase = "ready"
    /\ calls' = << [fn |-> "$state.go", to |-> "dashboardHosts.edit", params |-> [id |-> id]] >>
    /\ scope' = Set(Set(scope, "rowBeingEdited", Num(id)), "listBeingEdited", "hosts")
    /\ event' = [name |-> "editHost", id |-> id]
    /\ thrown' = "none"
    /\ UNCHANGED <<phase, listener, pending>>

editHost(id) ==
    /\ phase = "ready"
    /\ calls' = << [fn |-> "$state.go", to |-> "dashboardHosts.edit", params |-> [id |-> id]] >>
    /\ event' = [name |-> "editHost", id |-> id]
    /\ thrown' = "none"
    /\ UNCHANGED <<phase, scope, listener, pending>>

(***************************************************************************)
(* $scope.toggleHostEnabled: the call, and the continuations of the        *)
(* promise DashboardHostService.setHostStatus returns                      *)
(***************************************************************************)
\* the request toggleHostEnabled(host) hands to setHostStatus
setHostStatusRequest(host) == [id |-> host.id, enabled |-> ~host.enabled]

\* (mutant) the flag is flipped locally before the server has answered
toggleHostEnabled_Optimistic(k) ==
    /\ phase = "ready"
    /\ k \in DOMAIN hosts
    /\ BagCardinality(pending) < MaxPending
    /\ pending' = pending (+) SetToBag({setHostStatusRequest(hosts[k])})
    /\ calls' = << [fn |-> "setHostStatus", host |-> hosts[k].id,
                    enabled |-> setHostStatusRequest(hosts[k]).enabled] >>
    /\ scope' = Set(scope, "hosts",
                    [hosts EXCEPT ![k] = Set(hosts[k], "enabled", ~hosts[k].enabled)])
    /\ event' = [name |-> "toggleHostEnabled"]
    /\ thrown' = "none"
    /\ UNCHANGED <<phase, listener>>

toggleHostEnabled(k) ==
    /\ phase = "ready"
    /\ k \in DOMAIN hosts
    /\ BagCardinality(pending) < MaxPending
    /\ pending' = pending (+) SetToBag({setHostStatusRequest(hosts[k])})
    /\ calls' = << [fn |-> "setHostStatus", host |-> hosts[k].id,
                    enabled |-> setHostStatusRequest(hosts[k]).enabled] >>
    /\ event' = [name |-> "toggleHostEnabled"]
    /\ thrown' = "none"
    /\ UNCHANGED <<phase, scope, listener>>

\* _.findIndex($scope.hosts, o => o.id === id); 0 stands for JavaScript's -1
findIndex(hs, id) ==
    IF \E k \in DOMAIN hs : hs[k].id = id
    THEN CHOOSE k \in DOMAIN hs :
            /\ hs[k].id = id
            /\ \A j \in DOMAIN hs : j < k => hs[j].id # id
    ELSE 0

\* (mutant) the callback trusts its own negation instead of the server's record
toggleSuccess_LocalNegation(hs, res) ==
    LET index == findIndex(hs, res.data.id)
    IN  IF index \in DOMAIN hs
        THEN [hosts |-> [hs EXCEPT ![index] = Set(hs[index], "enabled", ~hs[index].enabled)],
              thrown |-> "none"]
        ELSE [hosts |-> hs, thrown |-> "TypeError"]

\* (mutant) the callback patches the first row instead of the row it looked up
toggleSuccess_FirstRow(hs, res) ==
    IF 1 \in DOMAIN hs
    THEN [hosts |-> [hs EXCEPT ![1] = Set(hs[1], "enabled", res.data.enabled)],
          thrown |-> "none"]
    ELSE [hosts |-> hs, thrown |-> "TypeError"]

\* the .then callback: what it leaves in $scope.hosts and whether it throws.
\* $scope.hosts[-1] is undefined, and assigning a property of undefined is a
\* TypeError.
toggleSuccess(hs, res) ==
    LET index == findIndex(hs, res.data.id)
    IN  IF index \in DOMAIN hs
        THEN [hosts |-> [hs EXCEPT ![index] = Set(hs[index], "enabled", res.data.enabled)],
              thrown |-> "none"]
        ELSE [hosts |-> hs, thrown |-> "TypeError"]

\* (mutant) the success callback reruns status derivation after the patch
setHostStatusResolved_RerunsStatus(r, v) ==
    /\ BagIn(r, pending)
    /\ pending' = pending (-) SetToBag({r})
    /\ LET res == [data |-> [id |-> r.id, enabled |-> v]]
           out == toggleSuccess(hosts, res)
       IN  /\ scope' = Set(scope, "hosts", setJobStatus(out.hosts))
           /\ thrown' = out.thrown
           /\ event' = [name |-> "setHostStatus.resolved", sent |-> r.enabled, data |-> res.data]
           /\ calls' = setJobStatusCalls(out.hosts)
    /\ UNCHANGED <<phase, listener>>

\* the server accepts request r and answers with the canonical record,
\* whose enabled flag is v
setHostStatusResolved(r, v) ==
    /\ BagIn(r, pending)
    /\ pending' = pending (-) SetToBag({r})
    /\ LET res == [data |-> [id |-> r.id, enabled |-> v]]
           out == toggleSuccess(hosts, res)
       IN  /\ scope' = Set(scope, "hosts", out.hosts)
           /\ thrown' = out.thrown
           /\ event' = [name |-> "setHostStatus.resolved", sent |-> r.enabled, data |-> res.data]
    /\ calls' = << >>
    /\ UNCHANGED <<phase, listener>>

\* (mutant) a rejection callback that sends the request again
setHostStatusRejected_Retry(r) ==
    /\ BagIn(r, pending)
    /\ pending' = pending
    /\ event' = [name |-> "setHostStatus.rejected"]
    /\ calls' = << [fn |-> "setHostStatus", host |-> r.id, enabled |-> r.enabled] >>
    /\ thrown' = "none"
    /\ UNCHANGED <<phase, scope, listener>>

\* the server rejects request r: toggleHostEnabled registers no rejection callback
setHostStatusRejected(r) ==
    /\ BagIn(r, pending)
    /\ pending' = pending (-) SetToBag({r})
    /\ event' = [name |-> "setHostStatus.rejected"]
    /\ calls' = << >>
    /\ thrown' = "none"
    /\ UNCHANGED <<phase, scope, listener>>

(***************************************************************************)
(* $scope.$on('PostRefresh')                                               *)
(***************************************************************************)
\* (mutant) the handler recomputes the name and forgets the id
deriveInventory_NameOnly(value) ==
    Set(value, "inventory_name", value.summary_fields.inventory.name)

deriveInventory(value) ==
    Set(Set(value, "inventory_name", value.summary_fields.inventory.name),
        "inventory_id", value.summary_fields.inventory.id)

\* the _.map of lines 34-38
mapInventory(hs) == [k \in DOMAIN hs |-> deriveInventory(hs[k])]

\* (mutant) the handler also shows every item as enabled
PostRefreshHandler_ResetsEnabled(hs) ==
    [k \in DOMAIN hs |-> Set(SetStatus(deriveInventory(hs[k])), "enabled", TRUE)]

PostRefreshHandler(hs) == setJobStatus(mapInventory(hs))

\* the signal alone, on the Snapshot as it is
PostRefresh ==
    /\ phase = "ready"
    /\ scope' = Set(scope, "hosts", PostRefreshHandler(hosts))
    /\ calls' = setJobStatusCalls(mapInventory(hosts))
    /\ event' = [name |-> "PostRefresh"]
    /\ thrown' = "none"
    /\ UNCHANGED <<phase, listener, pending>>

\* a fetch of the Pager or the SearchBinder completes: it installs the
\* fetched results as $scope.hosts and emits PostRefresh
Refresh(results) ==
    /\ phase = "ready"
    /\ scope' = Set(scope, "hosts", PostRefreshHandler(results))
    /\ calls' = setJobStatusCalls(mapInventory(results))
    /\ event' = [name |-> "PostRefresh"]
    /\ thrown' = "none"
    /\ UNCHANGED <<phase, listener, pending>>

(***************************************************************************)
(* $rootScope.$on('$stateChangeSuccess') and $scope.$on('$destroy')        *)
(***************************************************************************)
\* (mutant) leaving the edit state removes the row id and keeps the list name
stateChangeListener_KeepsList(sc, toState, toParams) ==
    IF toState.name = "dashboardHosts.edit"
    THEN Set(Set(sc, "rowBeingEdited", Get(toParams, "id")), "listBeingEdited", "hosts")
    ELSE Delete(sc, "rowBeingEdited")

stateChangeListener(sc, toState, toParams) ==
    IF toState.name = "dashboardHosts.edit"
    THEN Set(Set(sc, "rowBeingEdited", Get(toParams, "id")), "listBeingEdited", "hosts")
    ELSE Delete(Delete(sc, "rowBeingEdited"), "listBeingEdited")

\* the router announces a completed transition; the listener runs if it is
\* still registered
stateChangeSuccess(toName, toParams) ==
    /\ phase # "constructed"
    /\ scope' = IF listener
                THEN stateChangeListener(scope, [name |-> toName], toParams)
                ELSE scope
    /\ event' = [name |-> "$stateChangeSuccess", toState |-> toName, toParams |-> toParams]
    /\ calls' = << >>
    /\ thrown' = "none"
    /\ UNCHANGED <<phase, listener, pending>>

\* (mutant) a $destroy handler that does not call cleanUpStateChangeListener
destroy_KeepsListener ==
    /\ phase = "ready"
    /\ phase' = "destroyed"
    /\ event' = [name |-> "$destroy"]
    /\ calls' = << >>
    /\ thrown' = "none"
    /\ UNCHANGED <<scope, listener, pending>>

\* (mutant) a $destroy handler that also drops the requests in flight
destroy_CancelsPending ==
    /\ phase = "ready"
    /\ phase' = "destroyed"
    /\ listener' = FALSE
    /\ pending' = EmptyBag
    /\ event' = [name |-> "$destroy"]
    /\ calls' = << >>
    /\ thrown' = "none"
    /\ UNCHANGED scope

\* cleanUpStateChangeListener(): deregisters the $stateChangeSuccess listener
destroy ==
    /\ phase = "ready"
    /\ phase' = "destroyed"
    /\ listener' = FALSE
    /\ event' = [name |-> "$destroy"]
    /\ calls' = << >>
    /\ thrown' = "none"
    /\ UNCHANGED <<scope, pending>>

(***************************************************************************)
(* Specification                                                           *)
(***************************************************************************)
Init ==
    /\ phase = "constructed"
    /\ scope = [hostPageSize |-> 10]
    /\ listener = TRUE
    /\ pending = EmptyBag
    /\ event = [name |-> "construct"]
    /\ calls = << >>
    /\ thrown = "none"

Next ==
    \/ \E page \in ApiPages, current \in StateNames, params \in ParamSets :
            init(page, current, params)
    \/ \E h \in HostIds : editHost(h)
    \/ \E k \in 1..MaxHosts : toggleHostEnabled(k)
    \/ \E r \in BagToSet(pending), v \in BOOLEAN : setHostStatusResolved(r, v)
    \/ \E r \in BagToSet(pending) : setHostStatusRejected(r)
    \/ PostRefresh
    \/ \E results \in ApiResults : Refresh(results)
    \/ \E toName \in StateNames, toParams \in ParamSets : stateChangeSuccess(toName, toParams)
    \/ destroy

Spec == Init /\ [][Next]_vars

\* The Snapshot and the toggle round trip alone: the view is entered on a
\* deep link into the edit state of row 1, stays up, and the router is silent
\* after init.
NextSnapshot ==
    \/ \E page \in ApiPages : init(page, "dashboardHosts.edit", [id |-> Num(1)])
    \/ \E k \in 1..MaxHosts : toggleHostEnabled(k)
    \/ \E r \in BagToSet(pending), v \in BOOLEAN : setHostStatusResolved(r, v)
    \/ \E r \in BagToSet(pending) : setHostStatusRejected(r)
    \/ PostRefresh
    \/ \E results \in ApiResults : Refresh(results)

SpecSnapshot == Init /\ [][NextSnapshot]_vars

\* The Edit-Tracking State and the life of the listener alone: no toggle and
\* no refresh after init.
NextEditTracking ==
    \/ \E page \in ApiPages, current \in StateNames, params \in ParamSets :
            init(page, current, params)
    \/ \E h \in HostIds : editHost(h)
    \/ \E toName \in StateNames, toParams \in ParamSets : stateChangeSuccess(toName, toParams)
    \/ destroy

SpecEditTracking == Init /\ [][NextEditTracking]_vars

\* Every handler of a view that stays up, on the Snapshot of the pre-fetched
\* page: no fetch completes after init.
NextHandlers ==
    \/ \E page \in ApiPages, current \in StateNames, params \in ParamSets :
            init(page, current, params)
    \/ \E h \in HostIds : editHost(h)
    \/ \E k \in 1..MaxHosts : toggleHostEnabled(k)
    \/ \E r \in BagToSet(pending), v \in BOOLEAN : setHostStatusResolved(r, v)
    \/ \E r \in BagToSet(pending) : setHostStatusRejected(r)
    \/ PostRefresh
    \/ \E toName \in StateNames, toParams \in ParamSets : stateChangeSuccess(toName, toParams)

SpecHandlers == Init /\ [][NextHandlers]_vars

\* Toggles and the disposal of the view: the router is silent and no fetch
\* completes after init.
NextDisposal ==
    \/ \E page \in ApiPages, current \in StateNames :
            init(page, current, [id |-> Num(1)])
    \/ \E k \in 1..MaxHosts : toggleHostEnabled(k)
    \/ \E r \in BagToSet(pending), v \in BOOLEAN : setHostStatusResolved(r, v)
    \/ \E r \in BagToSet(pending) : setHostStatusRejected(r)
    \/ destroy

SpecDisposal == Init /\ [][NextDisposal]_vars

(***************************************************************************)
(* The add-inventory-script controller (inventory-scripts/add).  It is a   *)
(* separate view: it runs on the same variables, scope being its $scope    *)
(* and pending the POST requests in flight, from its own initial state.    *)
(***************************************************************************)
Str(s) == [type |-> "string", val |-> s]

\* what the user may have typed into each field of the form when a handler
\* runs; Undefined is a field left untouched
FormNames == {Undefined, Str("ec2")}
FormDescriptions == {Undefined, Str("inventory of ec2")}
FormOrganizations == {Undefined, Num(1)}
FormScripts == {Undefined, Str("#!/bin/sh")}

\* the ids the server gives to a created script, and the statuses of a failed POST
ScriptIds == {1, 2}
ErrorStatuses == {400, 403}

\* url = GetBasePath('inventory_scripts')
url == "inventory_scripts"

\* the $scope the controller leaves behind (canEdit = true) with the form filled in
addScope(n, d, o, sc) ==
    [canEdit |-> TRUE, name |-> n, description |-> d, organization |-> o, script |-> sc]

\* the object handed to Rest.post
postPayload(sc) ==
    [name |-> sc.name, description |-> sc.description,
     organization |-> sc.organization, script |-> sc.script]

\* scope.formSave()
formSave ==
    /\ phase = "form"
    /\ BagCardinality(pending) < MaxPending
    /\ calls' = << [fn |-> "generator.clearApiErrors"],
                   [fn |-> "Wait", arg |-> "start"],
                   [fn |-> "Rest.setUrl", url |-> url],
                   [fn |-> "Rest.post", data |-> postPayload(scope)] >>
    /\ pending' = pending (+) SetToBag({postPayload(scope)})
    /\ event' = [name |-> "formSave"]
    /\ thrown' = "none"
    /\ UNCHANGED <<phase, scope, listener>>

\* the .success callback of the POST
postSuccess(r, id) ==
    /\ phase = "form"
    /\ BagIn(r, pending)
    /\ pending' = pending (-) SetToBag({r})
    /\ calls' = << [fn |-> "$state.go", to |-> "inventoryScripts.edit",
                    params |-> [inventory_script_id |-> id],
                    options |-> [reload |-> TRUE]],
                   [fn |-> "Wait", arg |-> "stop"] >>
    /\ event' = [name |-> "post.success", id |-> id]
    /\ thrown' = "none"
    /\ UNCHANGED <<phase, scope, listener>>

\* (mutant) an .error callback that moves on to the edit view all the same
postError_Navigates(r, status) ==
    /\ phase = "form"
    /\ BagIn(r, pending)
    /\ pending' = pending (-) SetToBag({r})
    /\ calls' = << [fn |-> "ProcessErrors", status |-> status, hdr |-> "Error!",
                    msg |-> << "Failed to add new inventory script. POST returned status: ",
                               status >>],
                   [fn |-> "$state.go", to |-> "inventoryScripts.edit",
                    params |-> [inventory_script_id |-> status],
                    options |-> [reload |-> TRUE]] >>
    /\ event' = [name |-> "post.error", status |-> status]
    /\ thrown' = "none"
    /\ UNCHANGED <<phase, scope, listener>>

\* the .error callback of the POST
postError(r, status) ==
    /\ phase = "form"
    /\ BagIn(r, pending)
    /\ pending' = pending (-) SetToBag({r})
    /\ calls' = << [fn |-> "ProcessErrors", status |-> status, hdr |-> "Error!",
                    msg |-> << "Failed to add new inventory script. POST returned status: ",
                               status >>] >>
    /\ event' = [name |-> "post.error", status |-> status]
    /\ thrown' = "none"
    /\ UNCHANGED <<phase, scope, listener>>

\* scope.formCancel()
formCancel ==
    /\ phase = "form"
    /\ calls' = << [fn |-> "$state.transitionTo", to |-> "inventoryScripts"] >>
    /\ event' = [name |-> "formCancel"]
    /\ thrown' = "none"
    /\ UNCHANGED <<phase, scope, listener, pending>>

\* after construction: canEdit is set, the form is injected and reset, the
\* organization lookup is installed; no request has been made
InitAdd ==
    /\ phase = "form"
    /\ scope \in {addScope(n, d, o, sc) : n \in FormNames, d \in FormDescriptions,
                                          o \in FormOrganizations, sc \in FormScripts}
    /\ listener = FALSE
    /\ pending = EmptyBag
    /\ event = [name |-> "construct"]
    /\ calls = << [fn |-> "generator.inject", mode |-> "add", related |-> FALSE],
                  [fn |-> "generator.reset"],
                  [fn |-> "LookUpInit", field |-> "organization", input_type |-> "radio"] >>
    /\ thrown = "none"

NextAdd ==
    \/ formSave
    \/ \E r \in BagToSet(pending), id \in ScriptIds : postSuccess(r, id)
    \/ \E r \in BagToSet(pending), status \in ErrorStatuses : postError(r, status)
    \/ formCancel

SpecAdd == InitAdd /\ [][NextAdd]_vars

(***************************************************************************)
(* Properties                                                              *)
(***************************************************************************)
\* after is before with the enabled flag of the item identified by id set to
\* v: same length, same order, every other item and every other field as before
PatchedOnly(before, after, id, v) ==
    /\ DOMAIN after = DOMAIN before
    /\ \A k \in DOMAIN before :
          IF before[k].id = id
          THEN /\ after[k].enabled = v
               /\ DOMAIN after[k] = DOMAIN before[k]
               /\ \A f \in (DOMAIN before[k]) \ {"enabled"} : after[k][f] = before[k][f]
          ELSE after[k] = before[k]

\* every property of $scope but hosts is as it was
RestOfScopeUnchanged ==
    /\ DOMAIN scope' = DOMAIN scope
    /\ \A key \in (DOMAIN scope) \ {"hosts"} : scope'[key] = scope[key]

\* C1: when setHostStatus resolves with {id, enabled: v} and id identifies an
\* item of the Snapshot, exactly one item has that id, its enabled flag
\* becomes v (the server's value, whatever was sent), and every other item,
\* every other field of the item and the rest of $scope are unchanged.
C1_ResolvedPatchesOneItem ==
    [][ (event'.name = "setHostStatus.resolved" /\ event'.data.id \in HostIdsOf(hosts))
        => /\ Cardinality({ k \in DOMAIN hosts : hosts[k].id = event'.data.id }) = 1
           /\ PatchedOnly(hosts, hosts', event'.data.id, event'.data.enabled)
           /\ RestOfScopeUnchanged
           /\ thrown' = "none" ]_vars

\* C1 witness: a response whose value is not the negation that was sent has
\* been written to its item, next to another item
C1_Witness ==
    /\ event.name = "setHostStatus.resolved"
    /\ event.data.enabled # event.sent
    /\ Len(hosts) > 1
    /\ \E k \in DOMAIN hosts :
          hosts[k].id = event.data.id /\ hosts[k].enabled = event.data.enabled

\* the identifier and the enabled flag of every row, in order
EnabledFlags(sc) ==
    IF "hosts" \in DOMAIN sc
    THEN [k \in DOMAIN sc.hosts |-> <<sc.hosts[k].id, sc.hosts[k].enabled>>]
    ELSE << >>

\* C2: toggleHostEnabled(host) hands setHostStatus exactly the negation of
\* host.enabled as it is at the call and leaves $scope as it is (no
\* optimistic update); an enabled flag of the Snapshot changes only in the
\* step that delivers a response or replaces the Snapshot.
C2_NoOptimisticUpdate ==
    [][ /\ event'.name = "toggleHostEnabled"
            => /\ scope' = scope
               /\ Len(calls') = 1
               /\ calls'[1].fn = "setHostStatus"
               /\ \E k \in DOMAIN hosts :
                     /\ hosts[k].id = calls'[1].host
                     /\ calls'[1].enabled = ~hosts[k].enabled
               /\ pending' = pending (+)
                     SetToBag({[id |-> calls'[1].host, enabled |-> calls'[1].enabled]})
        /\ (phase = "ready" /\ EnabledFlags(scope') # EnabledFlags(scope))
            => event'.name \in {"setHostStatus.resolved", "PostRefresh"} ]_vars

\* C2 witness: right after the call the request is in flight and the item
\* still has the value whose negation was sent
C2_Witness ==
    /\ event.name = "toggleHostEnabled"
    /\ \E k \in DOMAIN hosts :
          /\ calls = << [fn |-> "setHostStatus", host |-> hosts[k].id,
                         enabled |-> ~hosts[k].enabled] >>
          /\ BagIn([id |-> hosts[k].id, enabled |-> ~hosts[k].enabled], pending)

\* the calls of cs to DashboardHostService.setHostStatus
MutationRequests(cs) == SelectSeq(cs, LAMBDA c : c.fn = "setHostStatus")

\* C3: a rejection leaves $scope (Snapshot and Edit-Tracking State) as it
\* is and sends nothing (no retry: the request is gone and no other takes
\* its place); a call of toggleHostEnabled leaves $scope as it is and sends
\* exactly one request.
C3_RejectionChangesNothing ==
    [][ /\ event'.name = "setHostStatus.rejected"
            => /\ scope' = scope
               /\ MutationRequests(calls') = << >>
               /\ BagCardinality(pending') = BagCardinality(pending) - 1
               /\ thrown' = "none"
        /\ event'.name = "toggleHostEnabled"
            => /\ scope' = scope
               /\ Len(MutationRequests(calls')) = 1
               /\ BagCardinality(pending') = BagCardinality(pending) + 1 ]_vars

\* C3 witness: the only request in flight has been rejected, with rows in
\* the Snapshot and a row marked as being edited
C3_Witness ==
    /\ event.name = "setHostStatus.rejected"
    /\ pending = EmptyBag
    /\ Len(hosts) > 0
    /\ "listBeingEdited" \in DOMAIN scope

\* C4: when setHostStatus resolves with an identifier that no item of the
\* current Snapshot has, no item is modified and the callback returns
\* without raising an error.
C4_StaleResponseIsSilentNoOp ==
    [][ (event'.name = "setHostStatus.resolved" /\ event'.data.id \notin HostIdsOf(hosts))
        => (hosts' = hosts /\ thrown' = "none") ]_vars

\* C5: for two requests in flight on different items of the Snapshot and
\* any two values the server may return, running the two success callbacks
\* in either order ends in the same Snapshot: each item has the value
\* returned for it and every other item is as before.
C5_TogglesOnDifferentItemsCommute ==
    \A ra, rb \in BagToSet(pending), va, vb \in BOOLEAN :
        (ra.id # rb.id /\ {ra.id, rb.id} \subseteq HostIdsOf(hosts))
        => LET resA == [data |-> [id |-> ra.id, enabled |-> va]]
               resB == [data |-> [id |-> rb.id, enabled |-> vb]]
               ab == toggleSuccess(toggleSuccess(hosts, resA).hosts, resB)
               ba == toggleSuccess(toggleSuccess(hosts, resB).hosts, resA)
           IN  /\ ab.thrown = "none" /\ ba.thrown = "none"
               /\ ab.hosts = ba.hosts
               /\ DOMAIN ab.hosts = DOMAIN hosts
               /\ \A k \in DOMAIN hosts :
                     ab.hosts[k] = IF hosts[k].id = ra.id THEN Set(hosts[k], "enabled", va)
                                   ELSE IF hosts[k].id = rb.id THEN Set(hosts[k], "enabled", vb)
                                   ELSE hosts[k]

\* C5 witness: the response for one item has been written while a request
\* on another item of the Snapshot is still in flight
C5_Witness ==
    /\ event.name = "setHostStatus.resolved"
    /\ thrown = "none"
    /\ \E k \in DOMAIN hosts :
          hosts[k].id = event.data.id /\ hosts[k].enabled = event.data.enabled
    /\ \E r \in BagToSet(pending) :
          r.id # event.data.id /\ r.id \in HostIdsOf(hosts)

\* the denormalized fields of an item are present and equal to its
\* summary_fields.inventory
Derived(h) ==
    /\ {"inventory_name", "inventory_id"} \subseteq DOMAIN h
    /\ h.inventory_name = h.summary_fields.inventory.name
    /\ h.inventory_id = h.summary_fields.inventory.id

\* C6: when the PostRefresh handler has run, every item of the Snapshot has
\* inventory_name and inventory_id equal to its summary_fields.inventory
\* name and id, and running the handler once more would change nothing.
C6_PostRefreshDerivesInventory ==
    event.name = "PostRefresh"
    => /\ \A k \in DOMAIN hosts : Derived(hosts[k])
       /\ PostRefreshHandler(hosts) = hosts

\* C6 witness: the handler has run over a Snapshot whose items belong to
\* different inventories
C6_Witness ==
    /\ event.name = "PostRefresh"
    /\ \E j, k \in DOMAIN hosts :
          /\ Derived(hosts[j]) /\ Derived(hosts[k])
          /\ hosts[j].inventory_name # hosts[k].inventory_name

\* C7: when init() has run and no PostRefresh has been handled yet, every
\* item installed from the pre-fetched page has inventory_name and
\* inventory_id equal to its summary_fields.inventory name and id.
C7_DerivedAfterInit ==
    event.name = "init" => \A k \in DOMAIN hosts : Derived(hosts[k])

\* the Edit-Tracking State: the two marker properties of $scope that are present
EditTracking(sc) ==
    [key \in (DOMAIN sc) \cap {"rowBeingEdited", "listBeingEdited"} |-> sc[key]]

\* C8: once init() has run, list name and row id are both present, the row
\* id being an id, or both removed.
C8_EditTrackingNeverPartial ==
    phase # "constructed"
    => \/ /\ DOMAIN EditTracking(scope) = {"rowBeingEdited", "listBeingEdited"}
          /\ scope.listBeingEdited = "hosts"
          /\ scope.rowBeingEdited # Undefined
       \/ DOMAIN EditTracking(scope) = {}

\* C9: while the listener is registered, the Edit-Tracking State after a
\* $stateChangeSuccess is a function of that event alone: ("hosts", id of
\* toParams) when toState is "dashboardHosts.edit", whatever was marked
\* before, and neither property present for any other toState.
C9_NavigationDeterminesMarker ==
    (event.name = "$stateChangeSuccess" /\ listener)
    => IF event.toState = "dashboardHosts.edit"
       THEN EditTracking(scope) =
                [rowBeingEdited |-> Get(event.toParams, "id"), listBeingEdited |-> "hosts"]
       ELSE DOMAIN EditTracking(scope) = {}

\* C9 witness: a transition into the edit state of row 2 has been heard
C9_Witness ==
    /\ event.name = "$stateChangeSuccess"
    /\ listener
    /\ event.toState = "dashboardHosts.edit"
    /\ event.toParams = [id |-> Num(2)]
    /\ Get(scope, "rowBeingEdited") = Num(2)

\* C10: once $destroy has been delivered the listener is not registered
\* and no step changes the Edit-Tracking State.
C10_NoMarkerChangeAfterDestroy ==
    [][ phase = "destroyed"
        => (~listener /\ EditTracking(scope') = EditTracking(scope)) ]_vars

\* C10 witness: a transition into the edit state was announced after
\* $destroy and no row is marked
C10_Witness ==
    /\ phase = "destroyed"
    /\ event.name = "$stateChangeSuccess"
    /\ event.toState = "dashboardHosts.edit"
    /\ DOMAIN EditTracking(scope) = {}

\* C11: when init() has run on the page {results, count, next, previous},
\* the Snapshot holds the items of results in their order and the total row
\* count of the view state, host_total_rows, is the page's count, also when
\* count is not the number of results.
C11_TotalRowsIsCount ==
    event.name = "init"
    => /\ DOMAIN hosts = DOMAIN event.page.results
       /\ \A k \in DOMAIN hosts : hosts[k].id = event.page.results[k].id
       /\ scope.host_total_rows = event.page.count

\* C12: when init() has run, before any $stateChangeSuccess, the
\* Edit-Tracking State is ("hosts", id of $state.params) if $state.current
\* is "dashboardHosts.edit" and neither property is present otherwise.
C12_InitRecoversMarker ==
    event.name = "init"
    => IF event.current = "dashboardHosts.edit"
       THEN EditTracking(scope) =
                [rowBeingEdited |-> Get(event.params, "id"), listBeingEdited |-> "hosts"]
       ELSE DOMAIN EditTracking(scope) = {}

\* C12 witness: init() has run on a deep link into the edit state of row 2
C12_Witness ==
    /\ event.name = "init"
    /\ event.current = "dashboardHosts.edit"
    /\ event.params = [id |-> Num(2)]
    /\ Get(scope, "rowBeingEdited") = Num(2)
    /\ Get(scope, "listBeingEdited") = "hosts"

\* C13: the collaborator calls of init() are, in this order and each once:
\* SetStatus for every item of the installed Snapshot, generator.inject in
\* mode "edit", SearchInit (with host_active_search false), PaginateInit with
\* page size 10, PageRangeSetup (before the check of $state.current) and
\* last $scope.search with the iterator of the list (after that check).
C13_InitCallOrder ==
    event.name = "init"
    => LET n == Len(event.page.results)
       IN  /\ Len(calls) = n + 5
           /\ \A k \in 1..n :
                 calls[k].fn = "SetStatus" /\ calls[k].host = event.page.results[k].id
           /\ calls[n + 1].fn = "generator.inject"
           /\ calls[n + 1].mode = "edit"
           /\ "hosts" \in calls[n + 1].sees
           /\ calls[n + 2].fn = "SearchInit"
           /\ "host_active_search" \in calls[n + 2].sees
           /\ scope.host_active_search = FALSE
           /\ calls[n + 3].fn = "PaginateInit"
           /\ calls[n + 3].pageSize = 10
           /\ calls[n + 4].fn = "PageRangeSetup"
           /\ "listBeingEdited" \notin calls[n + 4].sees
           /\ calls[n + 5].fn = "search"
           /\ calls[n + 5].iterator = list.iterator
           /\ ("listBeingEdited" \in calls[n + 5].sees) = (event.current = "dashboardHosts.edit")

\* C13 witness: init() has run on a page of two items, on a deep link into
\* the edit state
C13_Witness ==
    /\ event.name = "init"
    /\ Len(event.page.results) = 2
    /\ event.current = "dashboardHosts.edit"
    /\ Len(calls) = 7
    /\ calls[7].fn = "search"

\* the calls of cs to the status resolver
StatusCalls(cs) == SelectSeq(cs, LAMBDA c : c.fn = "SetStatus")

\* C14: init() and the PostRefresh handler call SetStatus once for every
\* item of the Snapshot, in order, the PostRefresh handler handing over
\* items whose inventory fields are already written; toggleHostEnabled and
\* the two continuations of its promise never call SetStatus.
C14_StatusDerivationOnlyOnFullRefresh ==
    /\ event.name \in {"init", "PostRefresh"}
        => /\ Len(StatusCalls(calls)) = Len(hosts)
           /\ \A k \in DOMAIN hosts : StatusCalls(calls)[k].host = hosts[k].id
    /\ event.name = "PostRefresh"
        => \A k \in DOMAIN hosts :
              {"inventory_name", "inventory_id"} \subseteq StatusCalls(calls)[k].sees
    /\ event.name \in {"toggleHostEnabled", "setHostStatus.resolved", "setHostStatus.rejected"}
        => StatusCalls(calls) = << >>

\* C14 witness: a response has been written to an item of a Snapshot of two
\* items and the resolver was not called
C14_Witness ==
    /\ event.name = "setHostStatus.resolved"
    /\ thrown = "none"
    /\ Len(hosts) = 2
    /\ calls = << >>

\* C15: the Edit-Tracking State changes only in init() and in the
\* $stateChangeSuccess listener (so not in toggleHostEnabled, the
\* continuations of its promise or the PostRefresh handler); editHost(id)
\* makes exactly one call, $state.go("dashboardHosts.edit", {id: id}), and
\* leaves $scope, Snapshot and Edit-Tracking State included, as it is.
C15_MarkerChangesOnlyOnNavigation ==
    [][ /\ EditTracking(scope') # EditTracking(scope)
            => event'.name \in {"init", "$stateChangeSuccess"}
        /\ event'.name = "editHost"
            => /\ scope' = scope
               /\ calls' = << [fn |-> "$state.go", to |-> "dashboardHosts.edit",
                               params |-> [id |-> event'.id]] >> ]_vars

\* C15 witness: editHost(2) has asked the router for the edit state of row
\* 2 and no row is marked yet
C15_Witness ==
    /\ event.name = "editHost"
    /\ event.id = 2
    /\ Len(calls) = 1
    /\ calls[1].params.id = 2
    /\ DOMAIN EditTracking(scope) = {}

\* C16: $destroy deregisters the $stateChangeSuccess listener and leaves
\* the requests in flight and $scope as they are; a request that resolves
\* after $destroy with the identifier of an item of the Snapshot still has
\* its value written to that item, and to nothing else.
C16_ResponseAfterDestroyStillPatches ==
    [][ /\ event'.name = "$destroy"
            => (pending' = pending /\ scope' = scope /\ ~listener')
        /\ (phase = "destroyed" /\ event'.name = "setHostStatus.resolved"
                /\ event'.data.id \in HostIdsOf(hosts))
            => /\ PatchedOnly(hosts, hosts', event'.data.id, event'.data.enabled)
               /\ thrown' = "none" ]_vars

\* C16 witness: after $destroy a response has flipped the flag of its item
C16_Witness ==
    /\ phase = "destroyed"
    /\ event.name = "setHostStatus.resolved"
    /\ thrown = "none"
    /\ event.data.enabled = event.sent
    /\ \E k \in DOMAIN hosts :
          hosts[k].id = event.data.id /\ hosts[k].enabled = event.data.enabled

\* the calls of cs made to fn, in order
CallsTo(cs, fn) == SelectSeq(cs, LAMBDA c : c.fn = fn)

Navigations(cs) == SelectSeq(cs, LAMBDA c : c.fn \in {"$state.go", "$state.transitionTo"})

\* C17: formSave issues exactly one POST, of name, description, organization
\* and script as they stand in the scope, and does not navigate; the success
\* callback navigates once, to "inventoryScripts.edit" with
\* inventory_script_id the id the server returned, and nothing else ever
\* navigates there; the error callback hands the status to ProcessErrors and
\* does not navigate; formCancel navigates to "inventoryScripts" and issues
\* no POST.
C17_SaveAndCancel ==
    [][ /\ event'.name = "formSave"
            => /\ CallsTo(calls', "Rest.post")
                    = << [fn |-> "Rest.post",
                          data |-> [name |-> scope.name,
                                    description |-> scope.description,
                                    organization |-> scope.organization,
                                    script |-> scope.script]] >>
               /\ pending' = pending (+) SetToBag({calls'[4].data})
               /\ Navigations(calls') = << >>
        /\ event'.name = "post.success"
            => /\ Navigations(calls')
                    = << [fn |-> "$state.go", to |-> "inventoryScripts.edit",
                          params |-> [inventory_script_id |-> event'.id],
                          options |-> [reload |-> TRUE]] >>
               /\ CallsTo(calls', "Rest.post") = << >>
        /\ event'.name = "post.error"
            => /\ Navigations(calls') = << >>
               /\ Len(CallsTo(calls', "ProcessErrors")) = 1
               /\ CallsTo(calls', "ProcessErrors")[1].status = event'.status
               /\ CallsTo(calls', "Rest.post") = << >>
        /\ event'.name = "formCancel"
            => /\ calls' = << [fn |-> "$state.transitionTo", to |-> "inventoryScripts"] >>
               /\ pending' = pending
        /\ (\E i \in DOMAIN calls' :
                calls'[i].fn = "$state.go" /\ calls'[i].to = "inventoryScripts.edit")
            => event'.name = "post.success" ]_vars

\* C17 witness: a POST of a filled-in form has succeeded with id 2 and the
\* controller has asked for the edit view of script 2
C17_Witness ==
    /\ event.name = "post.success"
    /\ event.id = 2
    /\ scope.name = Str("ec2")
    /\ calls[1].fn = "$state.go"
    /\ calls[1].params.inventory_script_id = 2

\* C18: when toggleHostEnabled has just sent a request for an item, the
\* item's flag is still the negation of the value sent, so a second
\* toggleHostEnabled on it sends the same request again; and when two
\* responses for the item are written one after the other, the flag ends
\* as the value of the second, so when the server echoes the value sent
\* the flag does not return to what it was.
C18_DoubleToggleSendsSameValue ==
    event.name = "toggleHostEnabled"
    => \E k \in DOMAIN hosts :
          LET q == [id |-> calls[1].host, enabled |-> calls[1].enabled]
          IN  /\ hosts[k].id = q.id
              /\ BagIn(q, pending)
              /\ hosts[k].enabled = ~q.enabled
              /\ setHostStatusRequest(hosts[k]) = q
              /\ \A v1, v2 \in BOOLEAN :
                    LET first == toggleSuccess(hosts, [data |-> [id |-> q.id, enabled |-> v1]])
                        last == toggleSuccess(first.hosts, [data |-> [id |-> q.id, enabled |-> v2]])
                    IN  /\ first.thrown = "none" /\ last.thrown = "none"
                        /\ last.hosts[k].enabled = v2
                        /\ (v1 = q.enabled /\ v2 = q.enabled)
                              => last.hosts[k].enabled # hosts[k].enabled

\* C18 witness: the same item was toggled twice and both requests, with the
\* same value, are in flight
C18_Witness ==
    /\ event.name = "toggleHostEnabled"
    /\ CopiesIn([id |-> calls[1].host, enabled |-> calls[1].enabled], pending) = 2
    /\ \E k \in DOMAIN hosts :
          hosts[k].id = calls[1].host /\ hosts[k].enabled = ~calls[1].enabled

\* the fields the PostRefresh handler may write
DerivedFields == {"inventory_name", "inventory_id", "job_status"}

\* after has the items of before, in order, with nothing but derived fields
\* added or changed
OnlyDerivedFieldsWritten(before, after) ==
    /\ DOMAIN after = DOMAIN before
    /\ \A k \in DOMAIN before :
          /\ DOMAIN before[k] \subseteq DOMAIN after[k]
          /\ (DOMAIN after[k]) \ (DOMAIN before[k]) \subseteq DerivedFields
          /\ \A f \in (DOMAIN before[k]) \ DerivedFields : after[k][f] = before[k][f]
          /\ after[k].id = before[k].id
          /\ after[k].enabled = before[k].enabled

\* C19: a PostRefresh signal on the Snapshot as it stands keeps the number
\* of items, their order, their ids, their enabled flags and every field
\* other than inventory_name, inventory_id and the job-status metadata, and
\* leaves the rest of $scope and the requests in flight alone.
C19_PostRefreshWritesOnlyDerivedFields ==
    [][ PostRefresh
        => /\ OnlyDerivedFieldsWritten(hosts, hosts')
           /\ RestOfScopeUnchanged
           /\ pending' = pending ]_vars

\* C19 witness: the handler has run over a Snapshot of two items, one of
\* them disabled, and has written the derived fields
C19_Witness ==
    /\ event.name = "PostRefresh"
    /\ Len(hosts) = 2
    /\ \E k \in DOMAIN hosts : ~hosts[k].enabled
    /\ \A k \in DOMAIN hosts : DerivedFields \subseteq DOMAIN hosts[k]

\* C20: whenever a callback of the POST has run, on the success path or on
\* the error path, the controller has called Wait('stop').
C20_WaitStoppedOnCompletion ==
    event.name \in {"post.success", "post.error"}
    => \E i \in DOMAIN calls : calls[i] = [fn |-> "Wait", arg |-> "stop"]

====
